---------------------------- MODULE Spec2Model ----------------------------
(***************************************************************************)
(* A model of setup.py of numcodecs: the module-level computation of the   *)
(* common compile arguments, the extension descriptors built by run_setup, *)
(* the fault handling of ve_build_ext (run and build_extension), and the   *)
(* object cleanup of Sclean.                                               *)
(*                                                                         *)
(* A file path is a sequence whose first element is the directory and      *)
(* whose other elements are the characters of the file name, so that the   *)
(* string operations of the source (S[:-1] + 'o', the suffix match of a    *)
(* glob pattern, the compiler's splitext) are computed on characters.      *)
(*                                                                         *)
(* Fields of Extension that no property reads and that depend on parts of  *)
(* the bundled tree that are not modelled (sources, include_dirs) are left *)
(* out of the descriptor records.                                          *)
(***************************************************************************)
EXTENDS Integers, Sequences, FiniteSets, TLC

VARIABLES
    cpu_flags,          \* cpu_info flags of the host
    environ,            \* names defined in os.environ
    os_name,            \* os.name
    sys_platform,       \* sys.platform
    machine,            \* cpuinfo.platform.machine()
    is_pypy,            \* hasattr(sys, 'pypy_translation_info')
    pkg_host,           \* how the host's pkg-config answers for blosc
    fs,                 \* the files on disk
    fs0,                \* the files on disk when this invocation started
    pc,                 \* position of the script
    base_compile_args,  \* module-level list
    ext_modules,        \* run_setup's local, as passed to setup()
    cmdclass,           \* run_setup's local, as passed to setup()
    setup_called,       \* whether setup() has been called
    command,            \* the distutils command setup() dispatched
    log,                \* what info() and error() printed, in order
    exc,                \* the exception that left the script ("None": none)
    fault,              \* where an error was first raised, and its type
    pkgconfig_calls,    \* pkg-config subprocesses asked for
    precompile_runs,    \* times the assembly step of ve_build_ext.run ran
    compiled,           \* assembly sources that step compiled
    idx,                \* index of the next extension build_ext.run builds
    attempted,          \* names build_extension was called for, in order
    failed,             \* names whose build_extension raised BuildFailed
    removed,            \* files Sclean.run removed
    prev_cmd,           \* the command of the previous invocation
    prev_removed        \* the files the previous invocation's Sclean.run removed

vars == <<cpu_flags, environ, os_name, sys_platform, machine, is_pypy, pkg_host,
          fs, fs0,
          pc, base_compile_args, ext_modules, cmdclass, setup_called, command,
          log, exc, fault, pkgconfig_calls, precompile_runs, compiled, idx,
          attempted, failed, removed, prev_cmd, prev_removed>>

host == <<cpu_flags, environ, os_name, sys_platform, machine, is_pypy, pkg_host>>

-----------------------------------------------------------------------------
(* Bounds *)

\* Longest stem in front of "amd64" in a file name of the modelled tree.
MaxStem == 1

-----------------------------------------------------------------------------
(* Sequences and paths *)

Range(s) == {s[i] : i \in 1..Len(s)}

EndsWith(s, suf) ==
    /\ Len(s) >= Len(suf)
    /\ SubSeq(s, Len(s) - Len(suf) + 1, Len(s)) = suf

RECURSIVE SetToSeq(_)
SetToSeq(S) ==
    IF S = {} THEN <<>>
    ELSE LET x == CHOOSE y \in S : TRUE IN <<x>> \o SetToSeq(S \ {x})

DecompressDir == "c-blosc/internal-complibs/zstd/decompress/"

Amd64 == <<"a", "m", "d", "6", "4">>

Stem(i) == [j \in 1..i |-> "x"]

AsmFile(i) == <<DecompressDir>> \o Stem(i) \o Amd64 \o <<".", "S">>

AsmObject(i) == <<DecompressDir>> \o Stem(i) \o Amd64 \o <<".", "o">>

\* An object file of the same directory that is not derived from assembly.
OtherObject == <<DecompressDir, "x", ".", "o">>

\* The build directory that build_ext fills and clean removes.
BuildTemp == <<"build/temp/">>

AsmFiles == {AsmFile(i) : i \in 0..MaxStem}

AsmObjects == {AsmObject(i) : i \in 0..MaxStem}

Tree == AsmFiles \cup AsmObjects \cup {OtherObject}

-----------------------------------------------------------------------------
(* Module level: CPU support and the common compile arguments *)

have_sse2 == "sse2" \in cpu_flags

have_avx2 == "avx2" \in cpu_flags

disable_sse2 == "DISABLE_NUMCODECS_SSE2" \in environ

disable_avx2 == "DISABLE_NUMCODECS_AVX2" \in environ

have_cflags == "CFLAGS" \in environ

\* BaseCompileArgs with the detected features tested by if instead of elif.
BaseCompileArgs_if ==
    LET sse2 == (IF disable_sse2 THEN <<"-mno-sse2">> ELSE <<>>)
                \o (IF have_sse2 THEN <<"-msse2">> ELSE <<>>)
        avx2 == (IF disable_avx2 THEN <<"-mno-avx2">> ELSE <<>>)
                \o (IF have_avx2 THEN <<"-mavx2">> ELSE <<>>)
        cpu  == IF have_cflags THEN <<>>
                ELSE IF os_name = "posix" THEN sse2 \o avx2 ELSE <<>>
        mac  == IF sys_platform = "darwin" THEN <<"-stdlib=libc++">> ELSE <<>>
    IN  cpu \o mac

\* BaseCompileArgs without the test of have_cflags.
BaseCompileArgs_no_cflags_test ==
    LET sse2 == IF disable_sse2 THEN <<"-mno-sse2">>
                ELSE IF have_sse2 THEN <<"-msse2">> ELSE <<>>
        avx2 == IF disable_avx2 THEN <<"-mno-avx2">>
                ELSE IF have_avx2 THEN <<"-mavx2">> ELSE <<>>
        cpu  == IF os_name = "posix" THEN sse2 \o avx2 ELSE <<>>
        mac  == IF sys_platform = "darwin" THEN <<"-stdlib=libc++">> ELSE <<>>
    IN  cpu \o mac

\* The list the module-level statements leave in base_compile_args.
BaseCompileArgs ==
    LET sse2 == IF disable_sse2 THEN <<"-mno-sse2">>
                ELSE IF have_sse2 THEN <<"-msse2">> ELSE <<>>
        avx2 == IF disable_avx2 THEN <<"-mno-avx2">>
                ELSE IF have_avx2 THEN <<"-mavx2">> ELSE <<>>
        cpu  == IF have_cflags THEN <<>>
                ELSE IF os_name = "posix" THEN sse2 \o avx2 ELSE <<>>
        mac  == IF sys_platform = "darwin" THEN <<"-stdlib=libc++">> ELSE <<>>
    IN  cpu \o mac

-----------------------------------------------------------------------------
(* pkg-config *)

Whitespace == {" ", "\n"}

\* shlex.split of an output given as its words and the whitespace between them.
ShlexSplit(out) == SelectSeq(out, LAMBDA t : t \notin Whitespace)

\* What the host answers to pkg-config: whether the tool is installed, the
\* exit status of each of the two calls, and what a successful call prints.
PkgHosts ==
    [present : BOOLEAN, rc_cflags : {0, 1}, rc_libs : {0, 1},
     out_cflags : {<<"-I/usr/include/blosc", "\n">>},
     out_libs : {<<"-L/usr/lib", " ", "-lblosc", "\n">>}]

\* pkgconfig with check_output replaced by a call that ignores the exit
\* status and a missing tool, and reads an empty output.
pkgconfig_unchecked(h) ==
    IF ~h.present \/ h.rc_cflags # 0 \/ h.rc_libs # 0
    THEN [err |-> "None", calls |-> 2, cflags |-> <<>>, libs |-> <<>>]
    ELSE [err |-> "None", calls |-> 2,
          cflags |-> ShlexSplit(h.out_cflags), libs |-> ShlexSplit(h.out_libs)]

\* pkgconfig(name) on host h: the error raised ("None": none), the
\* subprocesses asked for, and the Package returned.
pkgconfig(h) ==
    IF ~h.present
    THEN [err |-> "FileNotFoundError", calls |-> 1, cflags |-> <<>>, libs |-> <<>>]
    ELSE IF h.rc_cflags # 0
    THEN [err |-> "CalledProcessError", calls |-> 1, cflags |-> <<>>, libs |-> <<>>]
    ELSE IF h.rc_libs # 0
    THEN [err |-> "CalledProcessError", calls |-> 2, cflags |-> <<>>, libs |-> <<>>]
    ELSE [err |-> "None", calls |-> 2,
          cflags |-> ShlexSplit(h.out_cflags), libs |-> ShlexSplit(h.out_libs)]

-----------------------------------------------------------------------------
(* Globbing and derived object names *)

\* glob('c-blosc/internal-complibs/zstd*/decompress/*amd64.' + ext)
GlobAmd64(files, ext) ==
    {p \in files : /\ p[1] = DecompressDir
                   /\ EndsWith(Tail(p), Amd64 \o <<".", ext>>)}

\* S[:-2] + 'o'
DerivedObject_cut2(S) == SubSeq(S, 1, Len(S) - 2) \o <<"o">>

\* S[:-1] + 'o'
DerivedObject(S) == SubSeq(S, 1, Len(S) - 1) \o <<"o">>

\* The object file the compiler writes for a source: the source without its
\* extension, plus '.o' (no output directory is given to compile).
LastDot(p) == CHOOSE i \in 0..Len(p) :
                 /\ i = 0 \/ p[i] = "."
                 /\ \A j \in (i + 1)..Len(p) : p[j] # "."

ObjectFilename(src) ==
    IF LastDot(src) <= 1 THEN src \o <<".", "o">>
    ELSE SubSeq(src, 1, LastDot(src) - 1) \o <<".", "o">>

-----------------------------------------------------------------------------
(* Extension descriptors *)

Extension(n, macros, cargs, largs, objs) ==
    [name |-> n, define_macros |-> macros, extra_compile_args |-> cargs,
     extra_link_args |-> largs, extra_objects |-> objs]

Info(msg) == <<"info", msg>>

Error(e) == <<"error", e>>

blosc_extension(blosc) ==
    <<Extension("numcodecs.blosc", <<>>, base_compile_args \o blosc.cflags,
                blosc.libs, <<>>)>>

\* zstd_extra_objects without the test of the machine.
zstd_extra_objects_any_machine ==
    SetToSeq({DerivedObject(S) : S \in GlobAmd64(fs, "S")})

zstd_extra_objects ==
    IF machine = "x86_64"
    THEN SetToSeq({DerivedObject(S) : S \in GlobAmd64(fs, "S")})
    ELSE <<>>

zstd_extension ==
    <<Extension("numcodecs.zstd", <<>>, base_compile_args, <<>>,
                zstd_extra_objects)>>

lz4_extension ==
    <<Extension("numcodecs.lz4", <<>>, base_compile_args, <<>>, <<>>)>>

vlen_extension ==
    <<Extension("numcodecs.vlen", <<>>, base_compile_args, <<>>, <<>>)>>

fletcher_extension ==
    <<Extension("numcodecs.fletcher32", <<>>, base_compile_args, <<>>, <<>>)>>

jenkins_extension ==
    <<Extension("numcodecs.jenkins", <<<<"CYTHON_TRACE", "1">>>>,
                base_compile_args, <<>>, <<>>)>>

compat_extension ==
    <<Extension("numcodecs.compat_ext", <<>>, base_compile_args, <<>>, <<>>)>>

shuffle_extension ==
    <<Extension("numcodecs._shuffle", <<>>, base_compile_args, <<>>, <<>>)>>

\* The names run_setup asks for, in the order of its sum.
ExtensionNames ==
    <<"numcodecs.blosc", "numcodecs.zstd", "numcodecs.lz4",
      "numcodecs.compat_ext", "numcodecs._shuffle", "numcodecs.vlen",
      "numcodecs.fletcher32", "numcodecs.jenkins">>

-----------------------------------------------------------------------------
(* run_setup *)

\* with_extensions with or in place of and.
with_extensions_or == ~is_pypy \/ "DISABLE_NUMCODECS_CEXT" \notin environ

with_extensions == ~is_pypy /\ "DISABLE_NUMCODECS_CEXT" \notin environ

ve_cmdclass == {<<"build_ext", "ve_build_ext">>, <<"clean", "Sclean">>}

NoFault == [at |-> "none", kind |-> "None"]

\* run_setup(with_extensions) up to its call of setup(), on a host whose
\* pkg-config answers as h and where numpy can be imported or not: the error
\* raised, where, the two locals, what was printed and the subprocesses asked for.
run_setup_locals(h, numpy_ok) ==
    IF with_extensions
    THEN LET blosc == pkgconfig(h) IN
         IF blosc.err # "None"
         THEN [err |-> blosc.err, at |-> "pkgconfig", ext_modules |-> <<>>,
               cmdclass |-> {}, calls |-> blosc.calls,
               log |-> <<Info("setting up Blosc extension")>>]
         ELSE IF ~numpy_ok
         THEN [err |-> "ImportError", at |-> "numpy", ext_modules |-> <<>>,
               cmdclass |-> {}, calls |-> blosc.calls,
               log |-> <<Info("setting up Blosc extension"),
                         Info("setting up Zstandard extension"),
                         Info("setting up LZ4 extension"),
                         Info("setting up compat extension"),
                         Info("setting up shuffle extension"),
                         Info("setting up vlen extension")>>]
         ELSE [err |-> "None", at |-> "none",
               ext_modules |-> blosc_extension(blosc) \o zstd_extension
                               \o lz4_extension \o compat_extension
                               \o shuffle_extension \o vlen_extension
                               \o fletcher_extension \o jenkins_extension,
               cmdclass |-> ve_cmdclass, calls |-> blosc.calls,
               log |-> <<Info("setting up Blosc extension"),
                         Info("setting up Zstandard extension"),
                         Info("setting up LZ4 extension"),
                         Info("setting up compat extension"),
                         Info("setting up shuffle extension"),
                         Info("setting up vlen extension"),
                         Info("setting up fletcher32 extension"),
                         Info("setting up jenkins extension")>>]
    ELSE [err |-> "None", at |-> "none", ext_modules |-> <<>>, cmdclass |-> {},
          calls |-> 0, log |-> <<>>]

-----------------------------------------------------------------------------
(* ve_build_ext and Sclean *)

\* The error types the build can raise.
ErrorKinds == {"CCompilerError", "ExecError", "PlatformError", "IOError", "ValueError"}

ext_errors ==
    IF sys_platform = "win32"
    THEN {"CCompilerError", "ExecError", "PlatformError", "IOError", "ValueError"}
    ELSE {"CCompilerError", "ExecError", "PlatformError"}

\* The handler of ve_build_ext.run, for an exception e raised in its try
\* block: what leaves run, and what error() prints.
run_except(e) ==
    IF e = "PlatformError"
    THEN [exc |-> "BuildFailed", log |-> <<Error(e)>>]
    ELSE [exc |-> e, log |-> <<>>]

\* The handler of ve_build_ext.build_extension, likewise.
build_extension_except(e) ==
    IF e \in ext_errors
    THEN [exc |-> "BuildFailed", log |-> <<Error(e)>>]
    ELSE [exc |-> e, log |-> <<>>]

\* for f in o_files: os.remove(f), which raises for a file that is not there.
RECURSIVE RemoveAll(_, _)
RemoveAll(o_files, files) ==
    IF o_files = <<>> THEN [fs |-> files, removed |-> {}, err |-> "None"]
    ELSE IF Head(o_files) \notin files
    THEN [fs |-> files, removed |-> {}, err |-> "FileNotFoundError"]
    ELSE LET r == RemoveAll(Tail(o_files), files \ {Head(o_files)})
         IN  [r EXCEPT !.removed = @ \cup {Head(o_files)}]

\* Sclean_o_files computed from the assembly sources instead of globbed.
Sclean_o_files_of_sources ==
    IF machine = "x86_64"
    THEN SetToSeq({DerivedObject(S) : S \in GlobAmd64(fs, "S")})
    ELSE <<>>

\* The files Sclean.run globs before it removes them.
Sclean_o_files ==
    IF machine = "x86_64" THEN SetToSeq(GlobAmd64(fs, "o")) ELSE <<>>

\* The files ve_build_ext.run globs before it compiles them.
S_files == GlobAmd64(fs, "S")

-----------------------------------------------------------------------------
(* Initial states *)

\* The script before its first statement.
InitScript ==
    /\ pc = "import"
    /\ base_compile_args = <<>>
    /\ ext_modules = <<>>
    /\ cmdclass = {}
    /\ setup_called = FALSE
    /\ command = "none"
    /\ log = <<>>
    /\ exc = "None"
    /\ fault = NoFault
    /\ pkgconfig_calls = 0
    /\ precompile_runs = 0
    /\ compiled = {}
    /\ idx = 1
    /\ attempted = <<>>
    /\ failed = {}
    /\ removed = {}

Platforms == {<<"posix", "linux">>, <<"posix", "darwin">>, <<"nt", "win32">>}

Machines == {"x86_64", "aarch64"}

\* Any content of the tree, on the usual platforms, with or without CFLAGS
\* and with or without the extensions.
Init ==
    /\ machine \in Machines
    /\ cpu_flags = IF machine = "x86_64" THEN {"fpu", "sse2", "avx2"} ELSE {"fp"}
    /\ environ \in SUBSET {"CFLAGS", "DISABLE_NUMCODECS_CEXT"}
    /\ \E pl \in Platforms : os_name = pl[1] /\ sys_platform = pl[2]
    /\ is_pypy \in BOOLEAN
    /\ pkg_host \in PkgHosts
    /\ fs \in SUBSET Tree
    /\ fs0 = fs
    /\ prev_cmd = "none"
    /\ prev_removed = {}
    /\ InitScript

\* Any combination of CPU flags, overrides, os.name and sys.platform, on a
\* complete tree.
InitFlags ==
    /\ machine \in Machines
    /\ cpu_flags \in SUBSET {"sse2", "avx2"}
    /\ environ \in SUBSET {"DISABLE_NUMCODECS_SSE2", "DISABLE_NUMCODECS_AVX2",
                            "CFLAGS", "DISABLE_NUMCODECS_CEXT"}
    /\ os_name \in {"posix", "nt"}
    /\ sys_platform \in {"linux", "darwin", "win32"}
    /\ is_pypy = FALSE
    /\ pkg_host \in PkgHosts
    /\ fs = AsmFiles
    /\ fs0 = fs
    /\ prev_cmd = "none"
    /\ prev_removed = {}
    /\ InitScript

\* Any content of the tree and of the build directory, for invocations of clean.
InitClean ==
    /\ machine \in Machines
    /\ cpu_flags = IF machine = "x86_64" THEN {"fpu", "sse2", "avx2"} ELSE {"fp"}
    /\ environ \in SUBSET {"CFLAGS", "DISABLE_NUMCODECS_CEXT"}
    /\ \E pl \in Platforms : os_name = pl[1] /\ sys_platform = pl[2]
    /\ is_pypy \in BOOLEAN
    /\ pkg_host \in PkgHosts
    /\ fs \in SUBSET (Tree \cup {BuildTemp})
    /\ fs0 = fs
    /\ prev_cmd = "none"
    /\ prev_removed = {}
    /\ InitScript

-----------------------------------------------------------------------------
(* Actions *)

\* The module-level statements.
ModuleInit ==
    /\ pc = "import"
    /\ base_compile_args' = BaseCompileArgs
    /\ pc' = "main"
    /\ UNCHANGED <<host, fs, fs0, ext_modules, cmdclass, setup_called, command,
                   log, exc, fault, pkgconfig_calls, precompile_runs, compiled,
                   idx, attempted, failed, removed, prev_cmd, prev_removed>>

\* The main block and run_setup, up to the call of setup().
RunSetup ==
    /\ pc = "main"
    /\ \E numpy_ok \in BOOLEAN :
         LET r == run_setup_locals(pkg_host, numpy_ok) IN
         /\ ext_modules' = r.ext_modules
         /\ cmdclass' = r.cmdclass
         /\ log' = log \o r.log
         /\ pkgconfig_calls' = pkgconfig_calls + r.calls
         /\ exc' = r.err
         /\ fault' = IF r.err = "None" THEN fault ELSE [at |-> r.at, kind |-> r.err]
         /\ pc' = IF r.err = "None" THEN "setup" ELSE "raised"
    /\ UNCHANGED <<host, fs, fs0, base_compile_args, setup_called, command,
                   precompile_runs, compiled, idx, attempted, failed, removed,
                   prev_cmd, prev_removed>>

\* setup(), asked on the command line for build_ext.
SetupBuildExt ==
    /\ pc = "setup"
    /\ setup_called' = TRUE
    /\ command' = "build_ext"
    /\ pc' = IF <<"build_ext", "ve_build_ext">> \in cmdclass THEN "ve_run" ELSE "done"
    /\ UNCHANGED <<host, fs, fs0, base_compile_args, ext_modules, cmdclass, log,
                   exc, fault, pkgconfig_calls, precompile_runs, compiled, idx,
                   attempted, failed, removed, prev_cmd, prev_removed>>

\* setup(), asked on the command line for clean.
SetupClean ==
    /\ pc = "setup"
    /\ setup_called' = TRUE
    /\ command' = "clean"
    /\ pc' = IF <<"clean", "Sclean">> \in cmdclass THEN "sclean" ELSE "clean"
    /\ UNCHANGED <<host, fs, fs0, base_compile_args, ext_modules, cmdclass, log,
                   exc, fault, pkgconfig_calls, precompile_runs, compiled, idx,
                   attempted, failed, removed, prev_cmd, prev_removed>>

\* ve_build_ext.run, up to its call of build_ext.run: on x86_64 the assembly
\* sources are compiled, or an error e is raised after those of T were.
Precompile ==
    /\ pc = "ve_run"
    /\ \E e \in {"None"} \cup ErrorKinds, T \in SUBSET S_files :
         /\ IF machine = "x86_64"
            THEN IF e = "None" THEN T = S_files ELSE (T # S_files \/ S_files = {})
            ELSE e = "None" /\ T = {}
         /\ precompile_runs' = IF machine = "x86_64" THEN precompile_runs + 1
                               ELSE precompile_runs
         /\ compiled' = T
         /\ fs' = fs \cup {ObjectFilename(s) : s \in T}
         /\ exc' = IF e = "None" THEN exc ELSE run_except(e).exc
         /\ log' = IF e = "None" THEN log ELSE log \o run_except(e).log
         /\ fault' = IF e = "None" THEN fault ELSE [at |-> "precompile", kind |-> e]
         /\ pc' = IF e = "None" THEN "build_ext_run" ELSE "raised"
    /\ UNCHANGED <<host, fs0, base_compile_args, ext_modules, cmdclass,
                   setup_called, command, pkgconfig_calls, idx, attempted, failed,
                   removed, prev_cmd, prev_removed>>

\* build_ext.run called by ve_build_ext.run, up to its first build_extension.
BuildExtRun ==
    /\ pc = "build_ext_run"
    /\ \E e \in {"None"} \cup ErrorKinds :
         /\ exc' = IF e = "None" THEN exc ELSE run_except(e).exc
         /\ log' = IF e = "None" THEN log ELSE log \o run_except(e).log
         /\ fault' = IF e = "None" THEN fault ELSE [at |-> "build_ext_run", kind |-> e]
         /\ pc' = IF e = "None" THEN "build" ELSE "raised"
    /\ UNCHANGED <<host, fs, fs0, base_compile_args, ext_modules, cmdclass,
                   setup_called, command, pkgconfig_calls, precompile_runs,
                   compiled, idx, attempted, failed, removed, prev_cmd,
                   prev_removed>>

\* ve_build_ext.build_extension for the next extension: it is built, or its
\* build raises e. An extension whose extra objects are not on disk cannot link.
BuildExtension ==
    /\ pc = "build"
    /\ idx <= Len(ext_modules)
    /\ \E e \in {"None"} \cup ErrorKinds :
         LET ext == ext_modules[idx]
             h   == build_extension_except(e)
             out == run_except(h.exc)
         IN
         /\ e = "None" => Range(ext.extra_objects) \subseteq fs
         /\ attempted' = Append(attempted, ext.name)
         /\ fs' = fs \cup {BuildTemp}
         /\ idx' = IF e = "None" THEN idx + 1 ELSE idx
         /\ failed' = IF e # "None" /\ h.exc = "BuildFailed"
                      THEN failed \cup {ext.name} ELSE failed
         /\ exc' = IF e = "None" THEN exc ELSE out.exc
         /\ log' = IF e = "None" THEN log ELSE log \o h.log \o out.log
         /\ fault' = IF e = "None" THEN fault ELSE [at |-> "build_extension", kind |-> e]
         /\ pc' = IF e # "None" THEN "raised"
                  ELSE IF idx = Len(ext_modules) THEN "done" ELSE "build"
    /\ UNCHANGED <<host, fs0, base_compile_args, ext_modules, cmdclass,
                   setup_called, command, pkgconfig_calls, precompile_runs,
                   compiled, removed, prev_cmd, prev_removed>>

\* Sclean.run: the derived objects are removed, then clean.run removes the
\* build directory.
ScleanRun ==
    /\ pc = "sclean"
    /\ LET r == RemoveAll(Sclean_o_files, fs) IN
         /\ removed' = r.removed
         /\ fs' = IF r.err = "None" THEN r.fs \ {BuildTemp} ELSE r.fs
         /\ exc' = r.err
         /\ fault' = IF r.err = "None" THEN fault ELSE [at |-> "sclean", kind |-> r.err]
         /\ pc' = IF r.err = "None" THEN "done" ELSE "raised"
    /\ UNCHANGED <<host, fs0, base_compile_args, ext_modules, cmdclass,
                   setup_called, command, log, pkgconfig_calls, precompile_runs,
                   compiled, idx, attempted, failed, prev_cmd, prev_removed>>

\* clean.run of distutils, when cmdclass names no clean.
DefaultClean ==
    /\ pc = "clean"
    /\ fs' = fs \ {BuildTemp}
    /\ pc' = "done"
    /\ UNCHANGED <<host, fs0, base_compile_args, ext_modules, cmdclass,
                   setup_called, command, log, exc, fault, pkgconfig_calls,
                   precompile_runs, compiled, idx, attempted, failed, removed,
                   prev_cmd, prev_removed>>

\* The script is run again on the same host and the same disk.
Restart ==
    /\ pc \in {"done", "raised"}
    /\ prev_cmd' = command
    /\ prev_removed' = removed
    /\ fs0' = fs
    /\ pc' = "import"
    /\ base_compile_args' = <<>>
    /\ ext_modules' = <<>>
    /\ cmdclass' = {}
    /\ setup_called' = FALSE
    /\ command' = "none"
    /\ log' = <<>>
    /\ exc' = "None"
    /\ fault' = NoFault
    /\ pkgconfig_calls' = 0
    /\ precompile_runs' = 0
    /\ compiled' = {}
    /\ idx' = 1
    /\ attempted' = <<>>
    /\ failed' = {}
    /\ removed' = {}
    /\ UNCHANGED <<host, fs>>

-----------------------------------------------------------------------------
(* Specifications *)

Next ==
    \/ ModuleInit
    \/ RunSetup
    \/ SetupBuildExt
    \/ SetupClean
    \/ Precompile
    \/ BuildExtRun
    \/ BuildExtension
    \/ ScleanRun
    \/ DefaultClean

\* One invocation of the script, for build_ext or for clean.
Spec == Init /\ [][Next]_vars

\* One invocation, over every combination of the inputs of the compile arguments.
SpecFlags == InitFlags /\ [][Next]_vars

NextClean ==
    \/ ModuleInit
    \/ RunSetup
    \/ SetupClean
    \/ ScleanRun
    \/ DefaultClean
    \/ Restart

\* Invocations of clean, one after the other.
SpecClean == InitClean /\ [][NextClean]_vars

-----------------------------------------------------------------------------
(* Properties *)

\* The error types of the environment/toolchain category.
EnvCategory == {"CCompilerError", "ExecError", "PlatformError"}

Terminated == pc \in {"done", "raised"}

CapabilityFlags == {"-msse2", "-mno-sse2", "-mavx2", "-mno-avx2"}

ZstdObjects ==
    UNION {Range(ext_modules[i].extra_objects) :
             i \in {j \in DOMAIN ext_modules : ext_modules[j].name = "numcodecs.zstd"}}

PkgFails ==
    \/ ~pkg_host.present
    \/ pkg_host.rc_cflags # 0
    \/ pkg_host.rc_libs # 0

SkipRequested == is_pypy \/ "DISABLE_NUMCODECS_CEXT" \in environ

\* C1: when the build of a component raises an error of the
\* environment/toolchain category, the error is logged, the component is
\* recorded as failed, no exception leaves the script, and by the end of the
\* run every component has been attempted.
C1_FaultIsolation ==
    (fault.at = "build_extension" /\ fault.kind \in EnvCategory) =>
        /\ Error(fault.kind) \in Range(log)
        /\ attempted[Len(attempted)] \in failed
        /\ exc = "None"
        /\ pc # "raised"
        /\ Terminated => Range(attempted) = Range(ExtensionNames)

\* C2: a run whose only error is a component build error of the
\* environment/toolchain category ends in success, and a run ends in a
\* fatal error only if pkg-config failed or an error outside the category
\* was raised.
C2_OverallResult ==
    Terminated =>
        /\ (fault.at = "build_extension" /\ fault.kind \in EnvCategory) => pc = "done"
        /\ pc = "raised" => (fault.at = "pkgconfig" \/ fault.kind \notin EnvCategory)

\* C3: a disabled feature's enabling flag is never in base_compile_args, and
\* on posix without CFLAGS, with one feature disabled and the other detected
\* and not disabled, the other's enabling flag is in it.
C3_DisableOverride ==
    pc # "import" =>
        /\ disable_sse2 => "-msse2" \notin Range(base_compile_args)
        /\ disable_avx2 => "-mavx2" \notin Range(base_compile_args)
        /\ (os_name = "posix" /\ ~have_cflags /\ disable_sse2
              /\ have_avx2 /\ ~disable_avx2)
             => "-mavx2" \in Range(base_compile_args)
        /\ (os_name = "posix" /\ ~have_cflags /\ disable_avx2
              /\ have_sse2 /\ ~disable_sse2)
             => "-msse2" \in Range(base_compile_args)

C3_Witness ==
    /\ pc # "import"
    /\ os_name = "posix" /\ ~have_cflags
    /\ disable_sse2 /\ have_sse2 /\ have_avx2 /\ ~disable_avx2
    /\ "-mavx2" \in Range(base_compile_args)

\* C4: with CFLAGS in the environment no capability-derived flag is in
\* base_compile_args nor in the extra_compile_args of any descriptor, and on
\* darwin '-stdlib=libc++' is in base_compile_args whatever CFLAGS and the
\* detected features are.
C4_CflagsSuppress ==
    pc # "import" =>
        /\ have_cflags =>
             /\ Range(base_compile_args) \cap CapabilityFlags = {}
             /\ \A i \in DOMAIN ext_modules :
                  Range(ext_modules[i].extra_compile_args) \cap CapabilityFlags = {}
        /\ sys_platform = "darwin" =>
             /\ base_compile_args # <<>>
             /\ base_compile_args[Len(base_compile_args)] = "-stdlib=libc++"

C4_Witness ==
    /\ have_cflags /\ have_sse2 /\ have_avx2 /\ ~disable_avx2
    /\ os_name = "posix" /\ sys_platform = "darwin"
    /\ Len(ext_modules) = Len(ExtensionNames)
    /\ base_compile_args = <<"-stdlib=libc++">>

\* C5: when pkg-config fails for blosc or is absent, the error leaves
\* run_setup, no descriptor of numcodecs.blosc exists, setup() is not called
\* and no component is built.
C5_PkgConfigFatal ==
    (~SkipRequested /\ PkgFails /\ pc \notin {"import", "main"}) =>
        /\ pc = "raised"
        /\ exc = IF pkg_host.present THEN "CalledProcessError" ELSE "FileNotFoundError"
        /\ \A i \in DOMAIN ext_modules : ext_modules[i].name # "numcodecs.blosc"
        /\ ~setup_called
        /\ attempted = <<>>
        /\ precompile_runs = 0
        /\ compiled = {}

C5_Witness ==
    /\ ~SkipRequested
    /\ pkg_host.present /\ pkg_host.rc_cflags = 1
    /\ pc = "raised"
    /\ pkgconfig_calls = 1

\* C6: when native builds are skipped, setup() gets an empty extension list
\* and an empty cmdclass: no descriptor builder ran, no pkg-config subprocess
\* was started, nothing was precompiled and no component was attempted.
C6_SkipMode ==
    (SkipRequested /\ pc \notin {"import", "main"}) =>
        /\ ext_modules = <<>>
        /\ cmdclass = {}
        /\ log = <<>>
        /\ pkgconfig_calls = 0
        /\ precompile_runs = 0
        /\ compiled = {}
        /\ attempted = <<>>
        /\ failed = {}
        /\ pc # "raised"
        /\ pc \in {"ve_run", "build_ext_run", "build", "sclean"} => FALSE
        /\ Terminated => setup_called

C6_Witness ==
    /\ is_pypy
    /\ pc = "done"
    /\ command = "build_ext"
    /\ setup_called
    /\ ~PkgFails

\* C7: on x86_64 every error of the environment/toolchain category raised by
\* the assembly step of ve_build_ext.run is logged and leaves run as
\* BuildFailed.
C7_PrecompileBuildFailed ==
    (machine = "x86_64" /\ fault.at = "precompile" /\ fault.kind \in EnvCategory) =>
        /\ exc = "BuildFailed"
        /\ Error(fault.kind) \in Range(log)

\* C8: Sclean.run never raises for a missing object, a run of it that
\* follows another removes nothing and leaves the disk as it found it, and
\* on x86_64 no file matching *amd64.o is left after a run.
C8_CleanIdempotent ==
    /\ fault.at # "sclean"
    /\ (pc = "done" /\ command = "clean" /\ <<"clean", "Sclean">> \in cmdclass) =>
         /\ prev_cmd = "clean" => (removed = {} /\ fs = fs0)
         /\ machine = "x86_64" => GlobAmd64(fs, "o") = {}

C8_Witness ==
    /\ pc = "done" /\ command = "clean" /\ <<"clean", "Sclean">> \in cmdclass
    /\ prev_cmd = "clean"
    /\ prev_removed # {}
    /\ GlobAmd64(fs, "S") # {}

\* C9: on a machine other than x86_64 the zstd descriptor has no extra
\* objects, ve_build_ext.run compiles no assembly, and Sclean.run removes no
\* object: the object files of the tree stay as they were.
C9_OtherMachines ==
    machine # "x86_64" =>
        /\ ZstdObjects = {}
        /\ precompile_runs = 0
        /\ compiled = {}
        /\ removed = {}
        /\ fs \cap (AsmObjects \cup {OtherObject}) = fs0 \cap (AsmObjects \cup {OtherObject})

C9_Witness ==
    /\ machine # "x86_64"
    /\ GlobAmd64(fs, "S") # {}
    /\ GlobAmd64(fs, "o") # {}
    /\ "numcodecs.zstd" \in Range(attempted)
    /\ pc = "done"

\* C10: on x86_64 with the extensions enabled, the assembly step runs once
\* and is over before build_extension is first called, and when
\* numcodecs.zstd is built each of its extra objects is the object of a
\* source that the step compiled in this invocation.
C10_PrecompileFirst ==
    (machine = "x86_64" /\ ~SkipRequested) =>
        /\ precompile_runs <= 1
        /\ pc = "ve_run" => (attempted = <<>> /\ precompile_runs = 0)
        /\ fault.at = "precompile" => attempted = <<>>
        /\ (attempted # <<>> \/ (pc = "done" /\ command = "build_ext"))
             => precompile_runs = 1
        /\ "numcodecs.zstd" \in Range(attempted) =>
             \A o \in ZstdObjects : \E src \in compiled : ObjectFilename(src) = o

C10_Witness ==
    /\ machine = "x86_64"
    /\ "numcodecs.zstd" \in Range(attempted)
    /\ Cardinality(ZstdObjects) = MaxStem + 1
    /\ pc = "done"

=============================================================================
